---- MODULE Spec2Model ----
(***************************************************************************)
(* Model of pocketbase.client.Client (src/pocketbase/client.py): the       *)
(* request dispatcher (_send, send, send_raw), the URL builder (build_url) *)
(* and the collection-to-service cache (collection).                       *)
(*                                                                         *)
(* Strings that the code slices (base_url, path) are sequences of          *)
(* one-character strings.  Python dicts are functions with a finite        *)
(* domain (headers) or sequences of <<key, value>> pairs with distinct     *)
(* keys (bodies, whose iteration order the code relies on).  Dict objects  *)
(* the caller owns live in a heap (caller_headers) so that in-place        *)
(* updates made by the dispatcher are visible to the caller afterwards.    *)
(***************************************************************************)
EXTENDS Integers, Sequences, FiniteSets, TLC

VARIABLES
    base_url,          \* Client.base_url
    token,             \* Client.auth_store.token ("" when unauthenticated)
    record,            \* Client.auth_store.model ("none" when unauthenticated)
    record_service,    \* Client.record_service: identifier -> service instance
    next_instance,     \* identity of the next RecordService object constructed
    caller_headers,    \* heap of the headers dicts owned by the caller
    caller_wrote_auth, \* history: the caller put an Authorization key in a dict
    first_returned,    \* history: identifier -> instance its first call returned
    last               \* the most recent operation, its inputs and its result

vars == <<base_url, token, record, record_service, next_instance,
          caller_headers, caller_wrote_auth, first_returned, last>>

----------------------------------------------------------------------------
(* Bounds *)

\* longest base URL / path drawn for build_url
MaxLen == 3
\* cap on RecordService objects ever constructed
MaxInstances == 3

(* Program constants *)

\* Client.__init__: timeout: float = 120
timeout == 120
\* send: response.status_code >= 400
ErrorStatus == 400

----------------------------------------------------------------------------
(* Values *)

\* Python None, as handed to the HTTP engine or returned to the caller
None == [tag |-> "none"]
\* a key the caller's req_config does not hold / a keyword argument not passed
Absent == [tag |-> "absent"]

Chars == {"/", "a"}
Strs == UNION {[1..n -> Chars] : n \in 0..MaxLen}

Tokens == {"t1", "t2"}
Records == {"u1"}
CollectionIds == {"posts", "comments"}
HeaderRefs == {"h1"}
HeaderNames == {"Authorization", "authorization", "Accept"}
CallerValues == {"mine"}

\* HTTP header names compare case-insensitively on the wire
Lower(k) == IF k \in {"Authorization", "authorization"} THEN "authorization" ELSE k

\* the headers dicts a caller can build by themselves
CallerMaps == UNION {[S -> CallerValues] : S \in SUBSET HeaderNames}

HasKey(m, k) == k \in DOMAIN m
HasAuthAnyCase(m) == \E k \in DOMAIN m : Lower(k) = "authorization"

\* dict.update({k: v})
Update(m, k, v) == [x \in (DOMAIN m) \cup {k} |-> IF x = k THEN v ELSE m[x]]

EmptyMap == [x \in {} |-> "mine"]

----------------------------------------------------------------------------
(* URL builder *)

EndsWithSlash(s) == Len(s) > 0 /\ s[Len(s)] = "/"
StartsWithSlash(s) == Len(s) > 0 /\ s[1] = "/"

\* variant of build_url: path.lstrip("/") in place of path[1:]
build_url_LstripAll(base, path) ==
    LET url == IF ~EndsWithSlash(base) THEN base \o <<"/">> ELSE base
        k == CHOOSE i \in 0..Len(path) :
                 /\ \A j \in 1..i : path[j] = "/"
                 /\ (i < Len(path) => path[i + 1] # "/")
    IN  url \o SubSeq(path, k + 1, Len(path))

build_url(base, path) ==
    LET url == IF ~EndsWithSlash(base) THEN base \o <<"/">> ELSE base
        p == IF StartsWithSlash(path) THEN Tail(path) ELSE path
    IN  url \o p

----------------------------------------------------------------------------
(* Request bodies *)

FieldNames == {"title", "doc"}
PlainValue == [type |-> "str", s |-> "v"]
FileUpload(fs) == [type |-> "file", files |-> fs]
FieldValues == {PlainValue, FileUpload(<<"b1">>), FileUpload(<<"b1", "b2">>)}

\* isinstance(v, FileUpload)
IsFileUpload(v) == v.type = "file"

\* dicts as insertion-ordered sequences of <<key, value>> with distinct keys
DictItems ==
    {s \in UNION {[1..n -> FieldNames \X FieldValues] : n \in 0..Cardinality(FieldNames)} :
        \A i, j \in 1..Len(s) : i # j => s[i][1] # s[j][1]}

Dict(items) == [tag |-> "dict", items |-> items]
\* a JSON-serializable body that is not a mapping
ListBody == [tag |-> "list"]

\* FileUpload.get(key): one (key, file) part per wrapped file
FileUpload_get(v, k) == [i \in 1..Len(v.files) |-> <<k, v.files[i]>>]

\* data[k] = v
SetItem(data, k, v) ==
    IF \E i \in 1..Len(data) : data[i][1] = k
    THEN [i \in 1..Len(data) |-> IF data[i][1] = k THEN <<k, v>> ELSE data[i]]
    ELSE Append(data, <<k, v>>)

\* the for-loop of _send over body.items()
RECURSIVE SplitBody(_, _, _)
SplitBody(items, data, files) ==
    IF items = <<>>
    THEN [data |-> data, files |-> files]
    ELSE LET k == Head(items)[1]
             v == Head(items)[2]
         IN  IF IsFileUpload(v)
             THEN SplitBody(Tail(items), data, files \o FileUpload_get(v, k))
             ELSE SplitBody(Tail(items), SetItem(data, k, v), files)

\* variant of Encode: the JSON body is kept when files are present
Encode_KeepBody(body) ==
    LET split == SplitBody(IF body.tag = "dict" THEN body.items ELSE <<>>, <<>>, <<>>)
        json == IF body = Absent THEN None ELSE body
    IN  IF Len(split.files) > 0
        THEN [json |-> json, data |-> Dict(split.data),
              files |-> [tag |-> "tuple", parts |-> split.files]]
        ELSE [json |-> json, data |-> None, files |-> None]

\* body = config.get("body", None), then the choice of encoding
Encode(body) ==
    LET split == SplitBody(IF body.tag = "dict" THEN body.items ELSE <<>>, <<>>, <<>>)
        json == IF body = Absent THEN None ELSE body
    IN  IF Len(split.files) > 0
        THEN [json |-> None, data |-> Dict(split.data),
              files |-> [tag |-> "tuple", parts |-> split.files]]
        ELSE [json |-> json, data |-> None, files |-> None]

----------------------------------------------------------------------------
(* Request configuration and auth injection *)

\* config = {"method": "GET"}; config.update(req_config)
MergeConfig(req_config) ==
    [method  |-> IF req_config.method = Absent THEN "GET" ELSE req_config.method.v,
     params  |-> req_config.params,
     headers |-> req_config.headers,
     body    |-> req_config.body]

\* the dict a headers entry of a config denotes: Absent, or its contents
HeadersOf(h, heap) ==
    IF h = Absent THEN Absent
    ELSE IF h.tag = "ref" THEN [tag |-> "map", m |-> heap[h.ref]]
    ELSE [tag |-> "map", m |-> h.m]

\* "Authorization" not in config["headers"]
LacksAuthorization(h, heap) == ~HasKey(HeadersOf(h, heap).m, "Authorization")

\* the conditional update of config["headers"]; a dict of the heap is updated
\* in place, an absent one is created by config.get("headers", {})
InjectAuth(tok, config, heap) ==
    IF tok # "" /\ (config.headers = Absent \/ LacksAuthorization(config.headers, heap))
    THEN IF config.headers = Absent
         THEN [config |-> [config EXCEPT !.headers =
                              [tag |-> "new", m |-> Update(EmptyMap, "Authorization", tok)]],
               heap |-> heap]
         ELSE [config |-> config,
               heap |-> [heap EXCEPT ![config.headers.ref] =
                            Update(heap[config.headers.ref], "Authorization", tok)]]
    ELSE [config |-> config, heap |-> heap]

\* config.get(key, None)
GetOrNone(v) == IF v = Absent THEN None ELSE v

----------------------------------------------------------------------------
(* The HTTP engine (httpx.Client.request) and its responses *)

Statuses == {200, 399, 400, 404}
Exceptions == {"ConnectError", "ReadTimeout"}
JsonObject == <<"{", "id", ":", "1", "}">>
JsonNull == <<"null">>
Html == <<"<html>">>
Contents == {JsonObject, JsonNull, Html}
RedirectUrl == <<"r">>

\* what one call of the engine does: raise a transport exception, or answer
EngineResults ==
    {[kind |-> "exception", e |-> e] : e \in Exceptions}
    \cup {[kind |-> "response", status_code |-> s, content |-> c, redirected |-> r] :
             s \in Statuses, c \in Contents, r \in BOOLEAN}

\* the response object of an answer to request req
ResponseOf(er, req) ==
    [status_code |-> er.status_code,
     url |-> IF er.redirected THEN RedirectUrl ELSE req.url,
     content |-> er.content]

\* response.json(): the parsed value, or a decode error
Json(content) ==
    IF content = JsonNull THEN [ok |-> TRUE, value |-> None]
    ELSE IF Len(content) = 2 /\ content[1] = "{" /\ content[2] = "}"
    THEN [ok |-> TRUE, value |-> [tag |-> "json", members |-> <<>>]]
    ELSE IF /\ Len(content) = 5 /\ content[1] = "{" /\ content[3] = ":"
            /\ content[5] = "}"
    THEN [ok |-> TRUE,
          value |-> [tag |-> "json", members |-> <<<<content[2], content[4]>>>>]]
    ELSE [ok |-> FALSE]

----------------------------------------------------------------------------
(* Errors and outcomes *)

Some(v) == [tag |-> "some", v |-> v]

\* ClientResponseError(message, url=, status=, data=, original_error=)
ClientResponseError(message, url, status, data, original_error) ==
    [type |-> "ClientResponseError", message |-> message, url |-> url,
     status |-> status, data |-> data, original_error |-> original_error]

Raise(error) == [kind |-> "raise", error |-> error]
Return(value) == [kind |-> "return", value |-> value]

\* variant of Request: the transport exception is turned into an empty response
Request_Swallow(req, er) ==
    IF er.kind = "exception"
    THEN Return([status_code |-> 0, url |-> req.url, content |-> <<>>])
    ELSE Return(ResponseOf(er, req))

\* the try/except around self.http_client.request(...) and the final return
Request(req, er) ==
    IF er.kind = "exception"
    THEN Raise(ClientResponseError("General request error", Absent, Absent, Absent,
                                   Some(er.e)))
    ELSE Return(ResponseOf(er, req))

\* Client._send: the request handed to the engine, the heap afterwards, the
\* number of engine calls and the response returned or the error raised
_send(tok, heap, base, path, req_config, er) ==
    LET config == MergeConfig(req_config)
        inj == InjectAuth(tok, config, heap)
        url == build_url(base, path)
        enc == Encode(inj.config.body)
        req == [method  |-> inj.config.method,
                url     |-> url,
                params  |-> GetOrNone(inj.config.params),
                headers |-> GetOrNone(HeadersOf(inj.config.headers, inj.heap)),
                json    |-> enc.json,
                data    |-> enc.data,
                files   |-> enc.files,
                timeout |-> timeout]
    IN  [req |-> req, heap |-> inj.heap, calls |-> 1, result |-> Request(req, er)]

\* variant of send_raw_response: the status is checked as in send
send_raw_response_Checked(response) ==
    IF response.status_code >= ErrorStatus
    THEN Raise(ClientResponseError("Response error", Some(response.url),
                                   Some(response.status_code), Some(None), Absent))
    ELSE Return([tag |-> "bytes", content |-> response.content])

\* Client.send_raw after the dispatch: return response.content
send_raw_response(response) == Return([tag |-> "bytes", content |-> response.content])

\* variant of send_response: status_code > 400 in place of >= 400
send_response_Gt(response) ==
    LET parsed == Json(response.content)
        data == IF parsed.ok THEN parsed.value ELSE None
    IN  IF response.status_code > ErrorStatus
        THEN Raise(ClientResponseError("Response error", Some(response.url),
                                       Some(response.status_code), Some(data), Absent))
        ELSE Return(data)

\* variant of send_response: no try/except around response.json()
send_response_NoCatch(response) ==
    LET parsed == Json(response.content)
    IN  IF ~parsed.ok
        THEN Raise([type |-> "JSONDecodeError"])
        ELSE IF response.status_code >= ErrorStatus
        THEN Raise(ClientResponseError("Response error", Some(response.url),
                                       Some(response.status_code), Some(parsed.value),
                                       Absent))
        ELSE Return(parsed.value)

\* Client.send after the dispatch: parse the body, then check the status
send_response(response) ==
    LET parsed == Json(response.content)
        data == IF parsed.ok THEN parsed.value ELSE None
    IN  IF response.status_code >= ErrorStatus
        THEN Raise(ClientResponseError("Response error", Some(response.url),
                                       Some(response.status_code), Some(data), Absent))
        ELSE Return(data)

\* Client.send: an error of _send propagates
send(tok, heap, base, path, req_config, er) ==
    LET d == _send(tok, heap, base, path, req_config, er)
    IN  [req |-> d.req, heap |-> d.heap, calls |-> d.calls,
         outcome |-> IF d.result.kind = "raise" THEN d.result
                     ELSE send_response(d.result.value)]

\* Client.send_raw: an error of _send propagates
send_raw(tok, heap, base, path, req_config, er) ==
    LET d == _send(tok, heap, base, path, req_config, er)
    IN  [req |-> d.req, heap |-> d.heap, calls |-> d.calls,
         outcome |-> IF d.result.kind = "raise" THEN d.result
                     ELSE send_raw_response(d.result.value)]

----------------------------------------------------------------------------
(* Collection-to-service cache *)

\* variant of collection: no membership test, a service is always constructed
collection_AlwaysNew(rs, n, id_or_name) ==
    [rs |-> [x \in (DOMAIN rs) \cup {id_or_name} |-> IF x = id_or_name THEN n ELSE rs[x]],
     n |-> n + 1,
     ret |-> n]

\* Client.collection; RecordService(self, id_or_name) is a new object, n
collection(rs, n, id_or_name) ==
    LET rs1 == IF id_or_name \notin DOMAIN rs
               THEN [x \in (DOMAIN rs) \cup {id_or_name} |->
                        IF x = id_or_name THEN n ELSE rs[x]]
               ELSE rs
    IN  [rs |-> rs1,
         n |-> IF id_or_name \notin DOMAIN rs THEN n + 1 ELSE n,
         ret |-> rs1[id_or_name]]

----------------------------------------------------------------------------
(* State *)

NoConfig == [method |-> Absent, params |-> Absent, headers |-> Absent, body |-> Absent]
NoPre == [token |-> "", record |-> "none", record_service |-> <<>>,
          caller_headers |-> [h \in HeaderRefs |-> EmptyMap]]

\* the record of an operation that is not a dispatch
NoLast ==
    [op |-> "none", path |-> <<>>, cfg |-> NoConfig, cfg_headers |-> Absent,
     er |-> [kind |-> "none"], pre |-> NoPre, req |-> None, calls |-> 0,
     outcome |-> [kind |-> "none"], id |-> "", ret |-> 0, url |-> <<>>]

\* Client.__init__ with the default base_url "/", an empty record_service cache
\* and either the default empty BaseAuthStore or an auth_store the caller passes
Init ==
    /\ base_url = <<"/">>
    /\ token \in {""} \cup Tokens
    /\ record = IF token = "" THEN "none" ELSE "u1"
    /\ record_service = <<>>
    /\ next_instance = 1
    /\ caller_headers = [h \in HeaderRefs |-> EmptyMap]
    /\ caller_wrote_auth = FALSE
    /\ first_returned = <<>>
    /\ last = NoLast

\* Client.__init__ with a base_url given by the caller
InitUrl ==
    /\ base_url \in Strs
    /\ token = ""
    /\ record = "none"
    /\ record_service = <<>>
    /\ next_instance = 1
    /\ caller_headers = [h \in HeaderRefs |-> EmptyMap]
    /\ caller_wrote_auth = FALSE
    /\ first_returned = <<>>
    /\ last = NoLast

----------------------------------------------------------------------------
(* Operations *)

\* AuthStore.save(token, model)
AuthSave(t, r) ==
    /\ token' = t
    /\ record' = r
    /\ last' = [NoLast EXCEPT !.op = "save"]
    /\ UNCHANGED <<base_url, record_service, next_instance, caller_headers,
                   caller_wrote_auth, first_returned>>

\* AuthStore.clear()
AuthClear ==
    /\ token' = ""
    /\ record' = "none"
    /\ last' = [NoLast EXCEPT !.op = "clear"]
    /\ UNCHANGED <<base_url, record_service, next_instance, caller_headers,
                   caller_wrote_auth, first_returned>>

\* the caller fills one of their headers dicts before passing it in a req_config
CallerSetHeaders(h, m) ==
    /\ caller_headers' = [caller_headers EXCEPT ![h] = m]
    /\ caller_wrote_auth' = (caller_wrote_auth \/ HasAuthAnyCase(m))
    /\ last' = [NoLast EXCEPT !.op = "set_headers"]
    /\ UNCHANGED <<base_url, token, record, record_service, next_instance,
                   first_returned>>

Snapshot == [token |-> token, record |-> record, record_service |-> record_service,
             caller_headers |-> caller_headers]

Dispatched(op, path, cfg, er, r) ==
    /\ caller_headers' = r.heap
    /\ last' = [NoLast EXCEPT !.op = op, !.path = path, !.cfg = cfg,
                              !.cfg_headers = HeadersOf(cfg.headers, caller_headers),
                              !.er = er, !.pre = Snapshot, !.req = r.req,
                              !.calls = r.calls, !.outcome = r.outcome]
    /\ UNCHANGED <<base_url, token, record, record_service, next_instance,
                   caller_wrote_auth, first_returned>>

\* a call of Client.send(path, req_config), the engine behaving as er
Send(path, cfg, er) ==
    Dispatched("send", path, cfg, er,
               send(token, caller_headers, base_url, path, cfg, er))

\* a call of Client.send_raw(path, req_config), the engine behaving as er
SendRaw(path, cfg, er) ==
    Dispatched("send_raw", path, cfg, er,
               send_raw(token, caller_headers, base_url, path, cfg, er))

\* a call of Client.collection(id_or_name)
Collection(id) ==
    /\ next_instance <= MaxInstances
    /\ LET c == collection(record_service, next_instance, id)
       IN  /\ record_service' = c.rs
           /\ next_instance' = c.n
           /\ first_returned' =
                  IF id \in DOMAIN first_returned THEN first_returned
                  ELSE [x \in (DOMAIN first_returned) \cup {id} |->
                           IF x = id THEN c.ret ELSE first_returned[x]]
           /\ last' = [NoLast EXCEPT !.op = "collection", !.id = id, !.ret = c.ret]
    /\ UNCHANGED <<base_url, token, record, caller_headers, caller_wrote_auth>>

\* a call of Client.build_url(path)
BuildUrl(path) ==
    /\ last' = [NoLast EXCEPT !.op = "build_url", !.path = path,
                              !.url = build_url(base_url, path)]
    /\ UNCHANGED <<base_url, token, record, record_service, next_instance,
                   caller_headers, caller_wrote_auth, first_returned>>

----------------------------------------------------------------------------
(* Inputs *)

MethodsIn == {Absent, [tag |-> "str", v |-> "POST"]}
ParamsIn == {Absent, [tag |-> "params", items |-> <<<<"page", "1">>>>]}
HeadersIn == {Absent} \cup {[tag |-> "ref", ref |-> h] : h \in HeaderRefs}
BodiesIn == {Absent, ListBody} \cup {Dict(i) : i \in DictItems}
PathsIn == {<<"a">>, <<"/", "a">>}

\* configurations that vary the headers
AuthConfigs == [method : {Absent}, params : {Absent}, headers : HeadersIn,
                body : {Absent, Dict(<<>>)}]
AuthEngineResults ==
    {[kind |-> "exception", e |-> "ConnectError"],
     [kind |-> "response", status_code |-> 200, content |-> JsonObject,
      redirected |-> FALSE],
     [kind |-> "response", status_code |-> 404, content |-> Html,
      redirected |-> FALSE]}

\* configurations that vary the method
RespConfigs == [method : MethodsIn, params : {Absent}, headers : HeadersIn,
                body : {Absent}]

\* configurations that vary the body
EncConfigs == [method : MethodsIn, params : ParamsIn, headers : {Absent},
               body : BodiesIn]

----------------------------------------------------------------------------
(* Specifications *)

Login == \E t \in Tokens, r \in Records : AuthSave(t, r)
Logout == AuthClear
SetHeaders == \E h \in HeaderRefs, m \in CallerMaps : CallerSetHeaders(h, m)
GetCollection == \E id \in CollectionIds : Collection(id)
SendAuth == \E cfg \in AuthConfigs, er \in AuthEngineResults : Send(<<"a">>, cfg, er)
SendRawAuth == \E cfg \in AuthConfigs, er \in AuthEngineResults : SendRaw(<<"a">>, cfg, er)

\* logins, logouts, caller-side header edits, collection lookups and dispatches
Next == Login \/ Logout \/ SetHeaders \/ GetCollection \/ SendAuth \/ SendRawAuth
Spec == Init /\ [][Next]_vars

SendResp == \E p \in PathsIn, cfg \in RespConfigs, er \in EngineResults : Send(p, cfg, er)
SendRawResp ==
    \E p \in PathsIn, cfg \in RespConfigs, er \in EngineResults : SendRaw(p, cfg, er)

\* dispatches against every behaviour of the engine
NextResp == SendResp \/ SendRawResp
SpecResp == Init /\ [][NextResp]_vars

SendEnc == \E cfg \in EncConfigs, er \in AuthEngineResults : Send(<<"a">>, cfg, er)
SendRawEnc == \E cfg \in EncConfigs, er \in AuthEngineResults : SendRaw(<<"a">>, cfg, er)

\* dispatches of every request body
NextEnc == SendEnc \/ SendRawEnc
SpecEnc == Init /\ [][NextEnc]_vars

CallBuildUrl == \E p \in Strs : BuildUrl(p)

\* build_url on every base URL and path
NextUrl == CallBuildUrl
SpecUrl == InitUrl /\ [][NextUrl]_vars

----------------------------------------------------------------------------
(* Properties *)

IsDispatch == last.op \in {"send", "send_raw"}

\* the URL the engine reports for the response of the last dispatch
FinalUrl == IF last.er.redirected THEN RedirectUrl ELSE last.req.url

\* the payload each response body stands for: its JSON value, None if it has none
ExpectedPayload(content) ==
    IF content = JsonObject THEN [tag |-> "json", members |-> <<<<"id", "1">>>>]
    ELSE None

\* C1: every dispatch hands the engine Authorization = the stored token when the
\* token is non-empty and the caller's headers carry no Authorization header;
\* hands it the caller's headers untouched when they carry an Authorization
\* header under any letter-casing; and adds nothing when the token is empty.
C1_AuthInjection ==
    IsDispatch =>
        LET tok == last.pre.token
            ch == last.cfg_headers
            sent == last.req.headers
            callerHasAuth == ch # Absent /\ HasAuthAnyCase(ch.m)
        IN  /\ (tok # "" /\ ~callerHasAuth) =>
                   /\ sent # None
                   /\ HasKey(sent.m, "Authorization")
                   /\ sent.m["Authorization"] = tok
            /\ callerHasAuth => sent = ch
            /\ tok = "" => sent = GetOrNone(ch)

\* C2: the engine receives a JSON body or multipart data, never both: a mapping
\* with a FileUpload entry gives no json, data = the other entries and files =
\* the parts of every FileUpload entry; a mapping without one gives json = the
\* mapping and neither data nor files; an absent body gives none of the three.
C2_EncodingSelection ==
    IsDispatch =>
        LET b == last.cfg.body
            r == last.req
            NonFile(e) == ~IsFileUpload(e[2])
            parts == UNION {{<<b.items[i][1], b.items[i][2].files[j]>> :
                                j \in 1..Len(b.items[i][2].files)} :
                            i \in {x \in 1..Len(b.items) : IsFileUpload(b.items[x][2])}}
        IN  /\ ~(r.json # None /\ (r.data # None \/ r.files # None))
            /\ b = Absent => (r.json = None /\ r.data = None /\ r.files = None)
            /\ (b.tag = "dict" /\ \A i \in 1..Len(b.items) : NonFile(b.items[i])) =>
                   (r.json = b /\ r.data = None /\ r.files = None)
            /\ (b.tag = "dict" /\ \E i \in 1..Len(b.items) : ~NonFile(b.items[i])) =>
                   /\ r.json = None
                   /\ r.data = Dict(SelectSeq(b.items, NonFile))
                   /\ r.files # None
                   /\ {r.files.parts[i] : i \in 1..Len(r.files.parts)} = parts
                   /\ Len(r.files.parts) = Cardinality(parts)

C2_Witness ==
    /\ last.op = "send"
    /\ last.cfg.body = Dict(<<<<"title", PlainValue>>, <<"doc", FileUpload(<<"b1", "b2">>)>>>>)
    /\ last.req.json = None
    /\ last.req.data = Dict(<<<<"title", PlainValue>>>>)
    /\ Len(last.req.files.parts) = 2

\* C3: send raises ClientResponseError exactly when the transport fails or the
\* status is >= 400; that error carries the final URL, the status and the parsed
\* payload (None when the body is not JSON); below 400 send returns the payload.
C3_SendStatus ==
    last.op = "send" =>
        LET er == last.er
            o == last.outcome
        IN  /\ (o.kind = "raise") <=>
                   (er.kind = "exception" \/ er.status_code >= 400)
            /\ o.kind = "raise" => o.error.type = "ClientResponseError"
            /\ (er.kind = "response" /\ er.status_code >= 400) =>
                   /\ o.error.url = Some(FinalUrl)
                   /\ o.error.status = Some(er.status_code)
                   /\ o.error.data = Some(ExpectedPayload(er.content))
            /\ (er.kind = "response" /\ er.status_code < 400) =>
                   o = Return(ExpectedPayload(er.content))

C3_Witness ==
    /\ last.op = "send"
    /\ last.er.kind = "response"
    /\ last.er.status_code = 400
    /\ last.er.redirected
    /\ last.outcome.kind = "raise"
    /\ last.outcome.error.status = Some(400)
    /\ last.outcome.error.url = Some(RedirectUrl)
    /\ last.outcome.error.data = Some([tag |-> "json", members |-> <<<<"id", "1">>>>])

\* C4: a body that is not JSON never makes send fail by itself: below 400 send
\* returns None, from 400 on the only error is the status error with a None
\* payload; whether send returns or raises depends on the status alone.
C4_DecodeSwallowed ==
    (last.op = "send" /\ last.er.kind = "response") =>
        LET er == last.er
            o == last.outcome
        IN  /\ (er.content = Html /\ er.status_code < 400) => o = Return(None)
            /\ (er.content = Html /\ er.status_code >= 400) =>
                   /\ o.kind = "raise"
                   /\ o.error.type = "ClientResponseError"
                   /\ o.error.status = Some(er.status_code)
                   /\ o.error.data = Some(None)
            /\ \A c \in Contents :
                   send_response([status_code |-> er.status_code, url |-> FinalUrl,
                                  content |-> c]).kind = o.kind

C4_Witness ==
    /\ last.op = "send"
    /\ last.er.kind = "response"
    /\ last.er.status_code = 200
    /\ last.er.content = Html
    /\ last.outcome = Return(None)

\* C5: a transport exception of the engine makes the dispatch raise a
\* ClientResponseError whose original error is that exception and whose URL,
\* status and payload are absent, after exactly one call of the engine.
C5_TransportWrapped ==
    (IsDispatch /\ last.er.kind = "exception") =>
        /\ last.outcome.kind = "raise"
        /\ last.outcome.error.type = "ClientResponseError"
        /\ last.outcome.error.original_error = Some(last.er.e)
        /\ last.outcome.error.url = Absent
        /\ last.outcome.error.status = Absent
        /\ last.outcome.error.data = Absent
        /\ last.calls = 1

C5_Witness ==
    /\ last.op = "send_raw"
    /\ last.er = [kind |-> "exception", e |-> "ReadTimeout"]
    /\ last.outcome.kind = "raise"
    /\ last.outcome.error.original_error = Some("ReadTimeout")

\* the cache agrees with the first instance returned for every identifier
C6_CacheState ==
    /\ DOMAIN record_service = DOMAIN first_returned
    /\ \A id \in DOMAIN record_service : record_service[id] = first_returned[id]
    /\ \A a, b \in DOMAIN record_service : a # b => record_service[a] # record_service[b]
    /\ last.op = "collection" => last.ret = first_returned[last.id]

\* a step keeps every cached entry; a lookup of a cached identifier changes nothing
C6_CacheStep ==
    /\ \A id \in DOMAIN record_service :
           id \in DOMAIN record_service' /\ record_service'[id] = record_service[id]
    /\ (last'.op = "collection" /\ last'.id \in DOMAIN record_service) =>
           record_service' = record_service

\* C6: every collection(id) call returns the instance the first call with that
\* id returned, different ids have different instances, the cache holds exactly
\* the ids ever requested, and no step removes or replaces an entry; a call with
\* a cached id leaves the cache as it was.
C6_SameInstance == []C6_CacheState /\ [][C6_CacheStep]_vars

C6_Witness ==
    /\ last.op = "collection"
    /\ last.id = "posts"
    /\ last.ret = 1
    /\ DOMAIN record_service = {"posts", "comments"}
    /\ record_service["comments"] = 2
    /\ next_instance = 3

\* C7: build_url joins base and path with exactly one "/" between the base
\* without its one trailing slash and the path without its one leading slash,
\* keeps every other character, and gives the same result for the four ways of
\* writing that one slash.
C7_BuildUrl ==
    last.op = "build_url" =>
        LET b == base_url
            p == last.path
            b0 == IF EndsWithSlash(b) THEN SubSeq(b, 1, Len(b) - 1) ELSE b
            p0 == IF StartsWithSlash(p) THEN SubSeq(p, 2, Len(p)) ELSE p
        IN  /\ last.url = b0 \o <<"/">> \o p0
            /\ (~EndsWithSlash(b) /\ ~StartsWithSlash(p)) =>
                   /\ build_url(b \o <<"/">>, p) = last.url
                   /\ build_url(b, <<"/">> \o p) = last.url
                   /\ build_url(b \o <<"/">>, <<"/">> \o p) = last.url

C7_Witness ==
    /\ last.op = "build_url"
    /\ base_url = <<"a", "/">>
    /\ last.path = <<"/", "/", "a">>
    /\ last.url = <<"a", "/", "/", "a">>

\* C8: a dispatch, returning or failing, leaves the AuthStore's token and
\* record, the collection cache and the caller's headers mappings as they were.
C8_NoSideEffects ==
    IsDispatch =>
        /\ token = last.pre.token
        /\ record = last.pre.record
        /\ record_service = last.pre.record_service
        /\ caller_headers = last.pre.caller_headers

\* C9: send_raw returns the body bytes of every response, whatever its status,
\* and fails only when the transport failed.
C9_RawUnconditional ==
    last.op = "send_raw" =>
        /\ last.er.kind = "response" =>
               last.outcome = Return([tag |-> "bytes", content |-> last.er.content])
        /\ (last.outcome.kind = "raise") <=> (last.er.kind = "exception")

C9_Witness ==
    /\ last.op = "send_raw"
    /\ last.er.kind = "response"
    /\ last.er.status_code = 404
    /\ last.outcome = Return([tag |-> "bytes", content |-> Html])

\* C10: as long as the caller never wrote an Authorization header themselves,
\* every dispatch carries Authorization = the token stored at that moment when
\* it is non-empty, and no Authorization header when it is empty.
C10_CurrentToken ==
    (IsDispatch /\ ~caller_wrote_auth) =>
        LET tok == last.pre.token
            sent == last.req.headers
        IN  /\ tok # "" =>
                   /\ sent # None
                   /\ HasKey(sent.m, "Authorization")
                   /\ sent.m["Authorization"] = tok
            /\ tok = "" => (sent = None \/ ~HasAuthAnyCase(sent.m))

====
